---- MODULE Spec2Model ----
(***************************************************************************)
(* Model of the "sym" image-symmetry plugin (src/main.py):                 *)
(*   - the three mirror transforms (pure functions on RGBA images),        *)
(*   - load_bytes and get_first_image (the byte loader and image locator), *)
(*   - the sym command handler, run by the host for concurrent messages.   *)
(* Five specifications share the module: SpecImg (the transforms),         *)
(* SpecLoad (load_bytes), SpecLoc (get_first_image), Spec (the handler,    *)
(* two concurrent invocations) and SpecArgs (the handler, one invocation,  *)
(* many argument texts).                                                   *)
(***************************************************************************)
EXTENDS Integers, Sequences, FiniteSets, TLC

VARIABLES
    img,      \* SpecImg: the decoded RGBA input image
    tmode,    \* SpecImg: the transform applied ("none" before the first one)
    res1,     \* SpecImg: the transform applied once
    res2,     \* SpecImg: the transform applied twice
    tpc,      \* SpecImg: "ready" | "once" | "twice"
    hasImage,     \* the module global Image is not None (Pillow imported)
    hasRequests,  \* the module global requests is not None
    world,    \* what the network answers per URL, what the disk holds per path
    lmsgs,    \* SpecLoc: the segments event.get_messages() returns
    lret,     \* SpecLoc: what get_first_image(event) did
    lref,     \* SpecLoc: the argument of the last load_bytes call
    lload,    \* SpecLoc: what that load_bytes call did
    lpc,      \* SpecLoc, SpecLoad: "ready" | "located" | "loaded"
    invs,     \* the invocations of sym the host runs
    ev,       \* ev[i]: the segments of invocation i's event
    pc,       \* pc[i]: "idle" | "locating" | "yielded" | "done"
    param,    \* param[i]: the handler's param (<<>> for None)
    mode,     \* mode[i]: "lr" | "ud" | "center" ("none" before it is set)
    replies,  \* replies[i]: the results the generator has yielded
    stages,   \* stages[i]: the stages the invocation has run, in order
    fname,    \* fname[i]: the name _randname gave ("none" before Encode)
    resume,   \* resume[i]: what follows the pending yield: "return" | "cleanup"
    delivered,  \* delivered[i]: the host has sent the pending reply
    sent,     \* sent[i]: the image file content the host sent for i
    fault,    \* fault[i]: the failure the environment injected
    escaped,  \* escaped[i]: an exception left the handler
    removeFailed,  \* removeFailed[i]: os.remove raised on an existing file
    tmpdir,   \* the temp directory: file name -> content
    compApi,  \* which constructor Comp.Image offers
    interference  \* file accesses by an invocation to another one's file

imgVars == <<img, tmode, res1, res2, tpc>>
depVars == <<hasImage, hasRequests>>
locVars == <<world, lmsgs, lret, lref, lload, lpc>>
symVars == <<invs, ev, pc, param, mode, replies, stages, fname, resume,
             delivered, sent, fault, escaped, removeFailed, tmpdir, compApi,
             interference>>
vars == <<img, tmode, res1, res2, tpc, hasImage, hasRequests,
          world, lmsgs, lret, lref, lload, lpc,
          invs, ev, pc, param, mode, replies, stages, fname, resume,
          delivered, sent, fault, escaped, removeFailed, tmpdir, compApi,
          interference>>

(***************************************************************************)
(* Bounds.                                                                 *)
(***************************************************************************)
\* Images are 1 or 2*k pixels wide and high, k in 1..MaxHalf.
MaxHalf == 2
\* A message holds at most MaxSegs segments besides its quoted-reply segment.
MaxSegs == 2
\* A quoted-reply segment's chain holds at most MaxChain segments.
MaxChain == 2
\* _randname draws from NumNames names (36^12 in the program).
NumNames == 2

(***************************************************************************)
(* RGBA images.  A pixel is [c, a]: c stands for each of the colour bands  *)
(* R, G, B (Pillow treats every band alike), a is the alpha band.  An      *)
(* image is [w, h, px] with px[<<x, y>>], 0-based, x the column.           *)
(***************************************************************************)
Pixel(c, a) == [c |-> c, a |-> a]

\* The palettes the input images are drawn from: one mixing opaque,
\* transparent and half-transparent pixels, one with alpha 0 or 255 only,
\* one fully opaque.
Palettes ==
    << << Pixel(0, 255),   Pixel(100, 0),   Pixel(255, 128),
          Pixel(100, 255), Pixel(255, 0),   Pixel(0, 128),
          Pixel(255, 255), Pixel(0, 0),     Pixel(100, 128) >>,
       << Pixel(0, 255),   Pixel(100, 0),   Pixel(255, 255),
          Pixel(100, 255), Pixel(255, 0),   Pixel(0, 0),
          Pixel(255, 255), Pixel(0, 0),     Pixel(100, 0) >>,
       << Pixel(0, 255),   Pixel(100, 255), Pixel(255, 255),
          Pixel(100, 255), Pixel(255, 255), Pixel(0, 255),
          Pixel(30, 255),  Pixel(60, 255),  Pixel(90, 255) >> >>

Coords(w, h) == (0..(w - 1)) \X (0..(h - 1))

\* An image of size w x h with the pixels px, a function on Coords(w, h).
MkImage(w, h, px) == [w |-> w, h |-> h, px |-> px]

\* Image.copy()
Copy(im) == im

\* Image.crop((l, t, r, b))
Crop(im, l, t, r, b) ==
    MkImage(r - l, b - t,
            [p \in Coords(r - l, b - t) |-> im.px[<<p[1] + l, p[2] + t>>]])

\* Image.transpose(Image.FLIP_LEFT_RIGHT)
FlipLeftRight(im) ==
    MkImage(im.w, im.h,
            [p \in Coords(im.w, im.h) |-> im.px[<<im.w - 1 - p[1], p[2]>>]])

\* Image.transpose(Image.FLIP_TOP_BOTTOM)
FlipTopBottom(im) ==
    MkImage(im.w, im.h,
            [p \in Coords(im.w, im.h) |-> im.px[<<p[1], im.h - 1 - p[2]>>]])

\* Image.rotate(180): Pillow turns the angle 180 into transpose(ROTATE_180).
Rotate180(im) ==
    MkImage(im.w, im.h,
            [p \in Coords(im.w, im.h) |->
                im.px[<<im.w - 1 - p[1], im.h - 1 - p[2]>>]])

\* Image.resize((w, h), resample=LANCZOS).  Only reached when a dimension is
\* odd and at least 3; the images drawn below are 1 or even in each dimension,
\* so no checked property rests on this operator.  It samples the nearest
\* source pixel; the Lanczos kernel itself is not modelled.
Resize(im, w, h) ==
    MkImage(w, h,
            [p \in Coords(w, h) |->
                im.px[<<(p[1] * im.w) \div w, (p[2] * im.h) \div h>>]])

\* Pillow's DIV255 (8-bit fixed point division by 255, rounding).
Div255(a) == LET tmp == a + 128 IN ((tmp \div 256) + tmp) \div 256

\* Pillow's BLEND(mask, in1, in2): in1 weighted by 255 - mask, in2 by mask.
Blend(mask, in1, in2) == Div255(in1 * (255 - mask) + in2 * mask)

\* One pixel of Image.paste(src, box, mask) with an RGBA mask: every band of
\* the destination, alpha included, is blended with the source by the mask's
\* alpha band.
PastePixel(dst, src, mask) ==
    Pixel(Blend(mask.a, dst.c, src.c), Blend(mask.a, dst.a, src.a))

\* out.paste(src, (ox, oy), src): src is RGBA, so it is its own mask.
PasteMasked(out, src, ox, oy) ==
    MkImage(out.w, out.h,
            [p \in Coords(out.w, out.h) |->
                IF /\ ox <= p[1] /\ p[1] < ox + src.w
                   /\ oy <= p[2] /\ p[2] < oy + src.h
                THEN PastePixel(out.px[p],
                                src.px[<<p[1] - ox, p[2] - oy>>],
                                src.px[<<p[1] - ox, p[2] - oy>>])
                ELSE out.px[p]])

(***************************************************************************)
(* The mirror transforms.                                                  *)
(***************************************************************************)
\* A slip the claims about the transforms must notice: the slice is taken
\* from the right edge instead of the left one.
mirror_left_to_right_from_right(im) ==
    LET w == im.w
        h == im.h
        left_w == w \div 2
        right_w == w - left_w
        left == Crop(im, w - left_w, 0, w, h)
        mirrored == FlipLeftRight(left)
    IN  IF left_w = 0 THEN Copy(im)
        ELSE PasteMasked(Copy(im), mirrored, w - right_w, 0)

mirror_left_to_right(im) ==
    LET w == im.w
        h == im.h
        left_w == w \div 2
        right_w == w - left_w
        left == Crop(im, 0, 0, left_w, h)
        flipped == FlipLeftRight(left)
        mirrored == IF flipped.w # right_w \/ flipped.h # h
                    THEN Resize(flipped, right_w, h)
                    ELSE flipped
    IN  IF left_w = 0 THEN Copy(im)
        ELSE PasteMasked(Copy(im), mirrored, w - right_w, 0)

mirror_top_to_bottom(im) ==
    LET w == im.w
        h == im.h
        top_h == h \div 2
        bottom_h == h - top_h
        top == Crop(im, 0, 0, w, top_h)
        flipped == FlipTopBottom(top)
        mirrored == IF flipped.h # bottom_h \/ flipped.w # w
                    THEN Resize(flipped, w, bottom_h)
                    ELSE flipped
    IN  IF top_h = 0 THEN Copy(im)
        ELSE PasteMasked(Copy(im), mirrored, 0, h - bottom_h)

\* A slip the claim about the centre transform must notice: the quadrant is
\* flipped left-right only instead of being rotated.
mirror_center_quadrant_flip_only(im) ==
    LET w == im.w
        h == im.h
        left_w == w \div 2
        top_h == h \div 2
        tl == Crop(im, 0, 0, left_w, top_h)
        mirrored == FlipLeftRight(tl)
    IN  IF left_w = 0 \/ top_h = 0 THEN Copy(im)
        ELSE PasteMasked(Copy(im), mirrored, w - (w - left_w), h - (h - top_h))

mirror_center_quadrant(im) ==
    LET w == im.w
        h == im.h
        left_w == w \div 2
        top_h == h \div 2
        tl == Crop(im, 0, 0, left_w, top_h)
        rotated == Rotate180(tl)
        target_w == w - left_w
        target_h == h - top_h
        mirrored == IF rotated.w # target_w \/ rotated.h # target_h
                    THEN Resize(rotated, target_w, target_h)
                    ELSE rotated
    IN  IF left_w = 0 \/ top_h = 0 THEN Copy(im)
        ELSE PasteMasked(Copy(im), mirrored, w - target_w, h - target_h)

\* The handler's choice of transform by mode.
Transform(m, im) ==
    IF m = "lr" THEN mirror_left_to_right(im)
    ELSE IF m = "ud" THEN mirror_top_to_bottom(im)
    ELSE mirror_center_quadrant(im)

Modes == {"lr", "ud", "center"}


(***************************************************************************)
(* Strings are sequences of characters, byte strings sequences of bytes.   *)
(***************************************************************************)
StartsWith(s, prefix) ==
    /\ Len(s) >= Len(prefix)
    /\ SubSeq(s, 1, Len(prefix)) = prefix

HTTP == <<"h", "t", "t", "p", ":", "/", "/">>
HTTPS == <<"h", "t", "t", "p", "s", ":", "/", "/">>
HTTP_PREFIX == <<"h", "t", "t", "p">>

\* An optional byte string: None, or bytes (possibly empty).
NoBytes == [some |-> FALSE, bytes |-> <<>>]
Some(b) == [some |-> TRUE, bytes |-> b]
\* Python truthiness of "bytes | None".
Truthy(v) == v.some /\ v.bytes # <<>>

\* What a call did: it raised, or it returned val.
Ret(v) == [raised |-> FALSE, val |-> v]
Raised == [raised |-> TRUE, val |-> NoBytes]
NoCall == Ret(NoBytes)

(***************************************************************************)
(* The world load_bytes reads: what the network answers for each URL and   *)
(* what the file system holds at each path.                                *)
(***************************************************************************)
UrlOk == HTTP \o <<"a">>
UrlOk2 == HTTPS \o <<"e">>
UrlNotFound == HTTP \o <<"b">>
UrlDown == HTTPS \o <<"c">>
UrlEmpty == HTTP \o <<"d">>
PathOk == <<"/", "p">>
PathMissing == <<"/", "q">>
PathDenied == <<"/", "r">>
\* starts with "http" but with neither "http://" nor "https://"
HttpLike == <<"h", "t", "t", "p", "x">>

Refs == {<<>>, UrlOk, UrlOk2, UrlNotFound, UrlDown, UrlEmpty,
         PathOk, PathMissing, PathDenied, HttpLike}

Urls == {UrlOk, UrlOk2, UrlNotFound, UrlDown, UrlEmpty}
Paths == {PathOk, PathMissing, PathDenied, HttpLike}

NetRaises == [raises |-> TRUE, status |-> 0, content |-> <<>>]
NetAnswer(status, content) ==
    [raises |-> FALSE, status |-> status, content |-> content]
FsMissing == [exists |-> FALSE, raises |-> FALSE, content |-> <<>>]
FsDenied == [exists |-> TRUE, raises |-> TRUE, content |-> <<>>]
FsFile(content) == [exists |-> TRUE, raises |-> FALSE, content |-> content]

\* The world the locator runs in.
World0 ==
    [net |-> [u \in Urls |->
                CASE u = UrlOk -> NetAnswer(200, <<1>>)
                  [] u = UrlOk2 -> NetAnswer(200, <<4, 4>>)
                  [] u = UrlNotFound -> NetAnswer(404, <<9>>)
                  [] u = UrlEmpty -> NetAnswer(200, <<>>)
                  [] OTHER -> NetRaises],
     fs |-> [f \in Paths |->
                CASE f = PathOk -> FsFile(<<2>>)
                  [] f = PathDenied -> FsDenied
                  [] OTHER -> FsMissing]]

\* requests.get(s, timeout=timeout): raises, or answers a status and a body.
Net(s) == IF s \in DOMAIN world.net THEN world.net[s] ELSE NetRaises

\* os.path.exists(s), and open(s, "rb").read(): raises, or the content.
Fs(s) == IF s \in DOMAIN world.fs THEN world.fs[s] ELSE FsMissing

(***************************************************************************)
(* load_bytes                                                              *)
(***************************************************************************)
\* try: ... except Exception: return None
CatchNone(r) == IF r.raised THEN Ret(NoBytes) ELSE r

\* _get(): the GET and the status check
HttpGet(s) ==
    IF Net(s).raises THEN Raised
    ELSE IF Net(s).status = 200 THEN Ret(Some(Net(s).content))
    ELSE Ret(NoBytes)

\* the local branch's try body: exists, then _read(); falls to "return None"
ReadLocal(s) ==
    IF Fs(s).exists
    THEN IF Fs(s).raises THEN Raised ELSE Ret(Some(Fs(s).content))
    ELSE Ret(NoBytes)

\* A slip the claim about load_bytes must notice: the local read is not
\* guarded by try/except.
load_bytes_unguarded_read(s) ==
    IF s = <<>> THEN Ret(NoBytes)
    ELSE IF StartsWith(s, HTTP) \/ StartsWith(s, HTTPS)
    THEN IF ~hasRequests THEN Ret(NoBytes) ELSE CatchNone(HttpGet(s))
    ELSE ReadLocal(s)

load_bytes(s) ==
    IF s = <<>> THEN Ret(NoBytes)
    ELSE IF StartsWith(s, HTTP) \/ StartsWith(s, HTTPS)
    THEN IF ~hasRequests THEN Ret(NoBytes) ELSE CatchNone(HttpGet(s))
    ELSE CatchNone(ReadLocal(s))

(***************************************************************************)
(* Message segments.  A segment is a record of what the handler probes:    *)
(* its type name, text (hasText: the attribute is not None), url, file,    *)
(* data (hasData: it is a bytes or bytearray object), its string rendering *)
(* (strOk: str(seg) does not raise) and, for a Reply, its chain.  For url  *)
(* and file <<>> stands for a missing or empty attribute.                  *)
(***************************************************************************)
Seg(type, hasText, text, url, file, hasData, data, strOk, str, chain) ==
    [type |-> type, hasText |-> hasText, text |-> text, url |-> url,
     file |-> file,
     hasData |-> hasData, data |-> data, strOk |-> strOk, str |-> str,
     chain |-> chain]

ImageSeg(url, file, hasData, data, strOk, str) ==
    Seg("Image", FALSE, <<>>, url, file, hasData, data, strOk, str, <<>>)

OBJ == <<"<", "o", ">">>

\* type(seg).__name__.lower() == "reply"
IsReply(seg) == seg.type \in {"Reply", "reply", "REPLY"}

(***************************************************************************)
(* get_first_image                                                         *)
(***************************************************************************)
\* The outcome of probing one segment: the function raised, or returned val
\* (done), or went on to the next segment.
Went == [raised |-> FALSE, done |-> FALSE, val |-> NoBytes]
Returned(v) == [raised |-> FALSE, done |-> TRUE, val |-> v]
Threw == [raised |-> TRUE, done |-> FALSE, val |-> NoBytes]

\* img = await load_bytes(x); if img: return img   (outside any try)
TryLoad(x) ==
    IF x = <<>> THEN Went
    ELSE IF load_bytes(x).raised THEN Threw
    ELSE IF Truthy(load_bytes(x).val) THEN Returned(load_bytes(x).val)
    ELSE Went

\* try: s = str(seg); if s.startswith("http"): ... except Exception: pass
TryStr(seg) ==
    IF ~seg.strOk THEN Went
    ELSE IF ~StartsWith(seg.str, HTTP_PREFIX) THEN Went
    ELSE IF load_bytes(seg.str).raised THEN Went
    ELSE IF Truthy(load_bytes(seg.str).val)
    THEN Returned(load_bytes(seg.str).val)
    ELSE Went

\* One pass of a loop body: url, file, data, string rendering.
ProbeSeg(seg) ==
    IF TryLoad(seg.url) # Went THEN TryLoad(seg.url)
    ELSE IF TryLoad(seg.file) # Went THEN TryLoad(seg.file)
    ELSE IF seg.hasData THEN Returned(Some(seg.data))
    ELSE TryStr(seg)

\* for seg in chain: ...
RECURSIVE ScanChain(_)
ScanChain(segs) ==
    IF segs = <<>> THEN Went
    ELSE IF ProbeSeg(Head(segs)) # Went THEN ProbeSeg(Head(segs))
    ELSE ScanChain(Tail(segs))

\* for seg in msgs: if reply: continue ...
RECURSIVE ScanMsgs(_)
ScanMsgs(segs) ==
    IF segs = <<>> THEN Went
    ELSE IF IsReply(Head(segs)) THEN ScanMsgs(Tail(segs))
    ELSE IF ProbeSeg(Head(segs)) # Went THEN ProbeSeg(Head(segs))
    ELSE ScanMsgs(Tail(segs))

\* next((s for s in msgs if ... == "reply"), None): its index, 0 for None
RECURSIVE FirstReply(_, _)
FirstReply(segs, k) ==
    IF k > Len(segs) THEN 0
    ELSE IF IsReply(segs[k]) THEN k
    ELSE FirstReply(segs, k + 1)

get_first_image(msgs) ==
    LET r == FirstReply(msgs, 1)
        inChain == IF r # 0 /\ msgs[r].chain # <<>>
                   THEN ScanChain(msgs[r].chain)
                   ELSE Went
        found == IF inChain # Went THEN inChain ELSE ScanMsgs(msgs)
    IN  IF found.raised THEN Raised ELSE Ret(found.val)

(***************************************************************************)
(* SpecImg: a decoded image, a transform applied once and then again.      *)
(***************************************************************************)
Sizes == {1} \cup {2 * k : k \in 1..MaxHalf}

\* The input images: a diagonal pattern over palette pal, shifted by s, with
\* the pixel at position pos replaced by pixel q.
PatternImage(w, h, pal, s, pos, q) ==
    MkImage(w, h,
            [p \in Coords(w, h) |->
                IF p = pos THEN q
                ELSE Palettes[pal][((p[1] + 4 * p[2] + s) % 9) + 1]])

Images ==
    { PatternImage(w, h, pal, s, pos, q) :
        w \in Sizes, h \in Sizes, pal \in 1..Len(Palettes), s \in {0, 4},
        pos \in Coords(2, 2),
        q \in {Pixel(7, 255), Pixel(7, 0), Pixel(7, 128)} }

\* The variables of the other specifications, parked.

LocIdle ==
    /\ world = World0
    /\ lmsgs = <<>>
    /\ lret = NoCall
    /\ lref = <<>>
    /\ lload = NoCall
    /\ lpc = "ready"

DepsPresent == hasImage = TRUE /\ hasRequests = TRUE

SymIdle ==
    /\ invs = {}
    /\ ev = <<>> /\ pc = <<>> /\ param = <<>> /\ mode = <<>>
    /\ replies = <<>> /\ stages = <<>> /\ fname = <<>> /\ resume = <<>>
    /\ delivered = <<>> /\ sent = <<>> /\ fault = <<>> /\ escaped = <<>>
    /\ removeFailed = <<>>
    /\ tmpdir = <<>>
    /\ compApi = "fromFile"
    /\ interference = {}

ImgIdle ==
    /\ img = [w |-> 0, h |-> 0, px |-> <<>>]
    /\ tmode = "none"
    /\ res1 = img
    /\ res2 = img
    /\ tpc = "ready"

InitImg ==
    /\ DepsPresent
    /\ LocIdle
    /\ SymIdle
    /\ img \in Images
    /\ tmode = "none"
    /\ res1 = img
    /\ res2 = img
    /\ tpc = "ready"

ApplyOnce(m) ==
    /\ tpc = "ready"
    /\ tmode' = m
    /\ res1' = Transform(m, img)
    /\ tpc' = "once"
    /\ UNCHANGED <<img, res2, depVars, locVars, symVars>>

ApplyTwice ==
    /\ tpc = "once"
    /\ res2' = Transform(tmode, res1)
    /\ tpc' = "twice"
    /\ UNCHANGED <<img, tmode, res1, depVars, locVars, symVars>>

NextImg ==
    \/ \E m \in Modes : ApplyOnce(m)
    \/ ApplyTwice

SpecImg == InitImg /\ [][NextImg]_vars

(***************************************************************************)
(* SpecLoc: get_first_image on a message.  SpecLoad: load_bytes on a       *)
(* string, in a world whose answers vary.                                  *)
(***************************************************************************)
PlainSeg(text) ==
    Seg("Plain", TRUE, text, <<>>, <<>>, FALSE, <<>>, TRUE, OBJ, <<>>)
ReplySeg(chain) ==
    Seg("Reply", FALSE, <<>>, <<>>, <<>>, FALSE, <<>>, TRUE, OBJ, chain)

SegUrl == ImageSeg(UrlOk, <<>>, FALSE, <<>>, TRUE, OBJ)
SegUrl404File == ImageSeg(UrlNotFound, PathOk, FALSE, <<>>, TRUE, OBJ)
SegUrlData == ImageSeg(UrlOk, <<>>, TRUE, <<3>>, TRUE, OBJ)
SegUrlDownData == ImageSeg(UrlDown, <<>>, TRUE, <<3>>, TRUE, OBJ)
SegEmptyDataStr == ImageSeg(<<>>, <<>>, TRUE, <<>>, TRUE, UrlOk2)
SegDeniedStr == ImageSeg(<<>>, PathDenied, FALSE, <<>>, TRUE, UrlOk2)
SegNothing == ImageSeg(UrlEmpty, PathMissing, FALSE, <<>>, FALSE, <<>>)
SegHttpLike == ImageSeg(<<>>, <<>>, FALSE, <<>>, TRUE, HttpLike)
SegPlain == PlainSeg(<<"/", "s", "y", "m", " ", "l", "r">>)

TopPool == {SegUrl, SegUrl404File, SegUrlData, SegUrlDownData,
            SegEmptyDataStr, SegDeniedStr, SegNothing, SegHttpLike, SegPlain}
ChainPool == {SegUrlData, SegEmptyDataStr, SegNothing, SegDeniedStr}

SeqsUpTo(S, n) == UNION {[1..k -> S] : k \in 0..n}

InsertAt(seq, k, x) == SubSeq(seq, 1, k) \o <<x>> \o SubSeq(seq, k + 1, Len(seq))

\* Messages: up to MaxSegs segments, and possibly one quoted-reply segment
\* (its chain of up to MaxChain segments) anywhere among them.
Messages ==
    SeqsUpTo(TopPool, MaxSegs) \cup
    UNION { { InsertAt(t, k, ReplySeg(c)) :
                  k \in 0..Len(t), c \in SeqsUpTo(ChainPool, MaxChain) } :
            t \in SeqsUpTo(TopPool, MaxSegs) }

InitLoc ==
    /\ ImgIdle
    /\ SymIdle
    /\ hasImage = TRUE
    /\ hasRequests \in BOOLEAN
    /\ world = World0
    /\ lmsgs \in Messages
    /\ lret = NoCall
    /\ lref = <<>>
    /\ lload = NoCall
    /\ lpc = "ready"

Locate ==
    /\ lpc = "ready"
    /\ lret' = get_first_image(lmsgs)
    /\ lpc' = "located"
    /\ UNCHANGED <<imgVars, depVars, symVars, world, lmsgs, lref, lload>>

NextLoc == Locate

SpecLoc == InitLoc /\ [][NextLoc]_vars

NetOutcomes ==
    {NetRaises} \cup
    { NetAnswer(st, c) : st \in {200, 404, 500}, c \in {<<>>, <<1>>, <<1, 2>>} }
FsOutcomes == {FsMissing, FsDenied} \cup { FsFile(c) : c \in {<<>>, <<2>>} }

InitLoad ==
    /\ ImgIdle
    /\ SymIdle
    /\ hasImage = TRUE
    /\ hasRequests \in BOOLEAN
    /\ \E n \in NetOutcomes, f \in FsOutcomes :
          world = [net |-> [World0.net EXCEPT ![UrlOk] = n],
                   fs |-> [World0.fs EXCEPT ![PathOk] = f]]
    /\ lmsgs = <<>>
    /\ lret = NoCall
    /\ lref = <<>>
    /\ lload = NoCall
    /\ lpc = "ready"

LoadBytes(s) ==
    /\ lpc = "ready"
    /\ lref' = s
    /\ lload' = load_bytes(s)
    /\ lpc' = "loaded"
    /\ UNCHANGED <<imgVars, depVars, symVars, world, lmsgs, lret>>

NextLoad == \E s \in Refs : LoadBytes(s)

SpecLoad == InitLoad /\ [][NextLoad]_vars

(***************************************************************************)
(* The sym handler: argument parsing.                                      *)
(***************************************************************************)
Whitespace == {" ", "\t", "\n"}

\* txt.strip().split(): the maximal runs of non-whitespace characters
RECURSIVE SplitFrom(_, _, _)
SplitFrom(s, cur, acc) ==
    IF s = <<>> THEN (IF cur = <<>> THEN acc ELSE Append(acc, cur))
    ELSE IF Head(s) \in Whitespace
    THEN SplitFrom(Tail(s), <<>>, IF cur = <<>> THEN acc ELSE Append(acc, cur))
    ELSE SplitFrom(Tail(s), Append(cur, Head(s)), acc)

Split(s) == SplitFrom(s, <<>>, <<>>)

UpperCase == <<"A", "B", "C", "D", "E", "F", "G", "H", "I", "J", "K", "L", "M",
               "N", "O", "P", "Q", "R", "S", "T", "U", "V", "W", "X", "Y", "Z">>
LowerCase == <<"a", "b", "c", "d", "e", "f", "g", "h", "i", "j", "k", "l", "m",
               "n", "o", "p", "q", "r", "s", "t", "u", "v", "w", "x", "y", "z">>

LowerChar(c) ==
    IF \E k \in 1..Len(UpperCase) : UpperCase[k] = c
    THEN LowerCase[CHOOSE k \in 1..Len(UpperCase) : UpperCase[k] = c]
    ELSE c

\* str.lower()
Lower(tok) == [k \in 1..Len(tok) |-> LowerChar(tok[k])]

CMD == <<"/", "s", "y", "m">>

\* txt = getattr(seg, "text", None), or str(seg) when it is None, or ""
\* when str(seg) raises
SegText(seg) ==
    IF seg.hasText THEN seg.text
    ELSE IF seg.strOk THEN seg.str
    ELSE <<>>

\* A slip the claim about the argument must notice: a segment holding only
\* the command ends the scan instead of being skipped.
RECURSIVE ArgTokenStopAtBareCommand(_)
ArgTokenStopAtBareCommand(segs) ==
    IF segs = <<>> THEN <<>>
    ELSE LET parts == Split(SegText(Head(segs))) IN
         IF Head(segs).type # "Plain" \/ parts = <<>>
         THEN ArgTokenStopAtBareCommand(Tail(segs))
         ELSE IF StartsWith(parts[1], CMD)
         THEN IF Len(parts) >= 2 THEN parts[2] ELSE <<>>
         ELSE parts[1]

\* The parameter loop: the token that becomes param (<<>>: param stays None).
RECURSIVE ArgToken(_)
ArgToken(segs) ==
    IF segs = <<>> THEN <<>>
    ELSE LET parts == Split(SegText(Head(segs))) IN
         IF Head(segs).type # "Plain" \/ parts = <<>>
         THEN ArgToken(Tail(segs))
         ELSE IF StartsWith(parts[1], CMD)
         THEN IF Len(parts) >= 2 THEN parts[2] ELSE ArgToken(Tail(segs))
         ELSE parts[1]

ParseParam(msgs) == Lower(ArgToken(msgs))

\* The characters of the Chinese tokens, one name per character.
ZuoYou == <<"zuo", "you">>
ShangXia == <<"shang", "xia">>
ZhongXin == <<"zhong", "xin">>
DuiChen == <<"dui", "chen">>

LrTokens == {ZuoYou, <<"l", "r">>, <<"l", "e", "f", "t">>, ZuoYou \o DuiChen}
UdTokens == {ShangXia, <<"u", "d">>,
             <<"v", "e", "r", "t", "i", "c", "a", "l">>,
             <<"u", "p", "d", "o", "w", "n">>, ShangXia \o DuiChen}
CenterTokens == {ZhongXin, <<"c", "e", "n", "t", "e", "r">>,
                 <<"r", "o", "t">>, <<"1", "8", "0">>, ZhongXin \o DuiChen}

\* A slip the claim about the synonym table must notice: "updown" is missing.
ModeOfWithoutUpdown(p) ==
    IF p \in LrTokens THEN "lr"
    ELSE IF p \in UdTokens \ {<<"u", "p", "d", "o", "w", "n">>} THEN "ud"
    ELSE IF p \in CenterTokens THEN "center"
    ELSE "invalid"

\* if param in (...): mode = ... elif ... else: invalid
ModeOf(p) ==
    IF p \in LrTokens THEN "lr"
    ELSE IF p \in UdTokens THEN "ud"
    ELSE IF p \in CenterTokens THEN "center"
    ELSE "invalid"

(***************************************************************************)
(* The sym handler: replies, files, and its two straight-line parts.       *)
(***************************************************************************)
Names == 1..NumNames

\* A file of the temp directory: who wrote it (0: no such file) and whether
\* the PNG was written whole.
Absent == [owner |-> 0, whole |-> FALSE]
File(i, whole) == [owner |-> i, whole |-> whole]
NotSent == [owner |-> -1, whole |-> FALSE]

PlainReply(text) ==
    [kind |-> "plain", text |-> text, src |-> "none", path |-> 0,
     content |-> Absent]
\* event.chain_result([Comp.Image...]): built from the path, or from bytes
ImageReply(src, path, content) ==
    [kind |-> "image", text |-> "", src |-> src, path |-> path,
     content |-> content]
NoReply == PlainReply("")

Faults == {"none", "decode", "transform", "save_nofile", "save_partial", "emit"}

\* Lines 172-216: the dependency checks, the parameter loop, the mode.
\* reply is the text yielded before "return", "" when the handler goes on.
sym_front(msgs) ==
    LET p == ParseParam(msgs) IN
    IF ~hasImage
    THEN [reply |-> "no_pillow", param |-> <<>>, mode |-> "none",
          stages |-> <<>>]
    ELSE IF ~hasRequests
    THEN [reply |-> "no_requests", param |-> <<>>, mode |-> "none",
          stages |-> <<>>]
    ELSE IF p = <<>>
    THEN [reply |-> "usage", param |-> p, mode |-> "none",
          stages |-> <<"ParseArgs">>]
    ELSE IF ModeOf(p) = "invalid"
    THEN [reply |-> "invalid", param |-> p, mode |-> "none",
          stages |-> <<"ParseArgs">>]
    ELSE [reply |-> "", param |-> p, mode |-> ModeOf(p),
          stages |-> <<"ParseArgs">>]

Outcome(reply, stg, dir, name, res, flt, esc) ==
    [reply |-> reply, stages |-> stg, tmpdir |-> dir, fname |-> name,
     resume |-> res, fault |-> flt, escaped |-> esc]

\* _make_image_component_from_path(out_path), then event.chain_result
MakeReply(dir, name) ==
    IF compApi = "fromFile" THEN ImageReply("file", name, Absent)
    ELSE ImageReply("bytes", name, dir[name])

\* Lines 292-308: the temp file, the attachment, the reply.
sym_encode_send(i, flt, name, dir) ==
    IF flt = "save_nofile"
    THEN Outcome(PlainReply("save_failed"),
                 <<"LocateImage", "DecodeImage", "Transform", "Encode">>,
                 dir, name, "return", flt, FALSE)
    ELSE IF flt = "save_partial"
    THEN Outcome(PlainReply("save_failed"),
                 <<"LocateImage", "DecodeImage", "Transform", "Encode">>,
                 [dir EXCEPT ![name] = File(i, FALSE)], name, "return", flt,
                 FALSE)
    ELSE LET saved == [dir EXCEPT ![name] = File(i, TRUE)]
             all == <<"LocateImage", "DecodeImage", "Transform", "Encode",
                      "Send">>
         IN  IF compApi = "none"
             THEN Outcome(PlainReply("send_failed"), all, saved, name,
                          "cleanup", "make", FALSE)
             ELSE IF flt = "emit"
             THEN Outcome(PlainReply("send_failed"), all, saved, name,
                          "cleanup", flt, FALSE)
             ELSE Outcome(MakeReply(saved, name), all, saved, name,
                          "cleanup", "none", FALSE)

\* A slip the claim about failures must notice: Image.open(...).convert is
\* not guarded, so a decode failure leaves the handler as an exception.
sym_back_unguarded_open(i, got, flt, name, dir) ==
    IF got.raised
    THEN Outcome(NoReply, <<"LocateImage">>, dir, 0, "return", "none", TRUE)
    ELSE IF ~Truthy(got.val)
    THEN Outcome(PlainReply("not_found"), <<"LocateImage">>, dir, 0,
                 "return", "none", FALSE)
    ELSE IF flt = "decode"
    THEN Outcome(NoReply, <<"LocateImage", "DecodeImage">>, dir, 0,
                 "return", flt, TRUE)
    ELSE IF flt = "transform"
    THEN Outcome(PlainReply("transform_failed"),
                 <<"LocateImage", "DecodeImage", "Transform">>, dir, 0,
                 "return", flt, FALSE)
    ELSE sym_encode_send(i, flt, name, dir)

\* Lines 219-308: from "await get_first_image" to the next yield.  got is
\* what get_first_image did, flt the failure the environment injects, name
\* what _randname returns, dir the temp directory.
sym_back(i, got, flt, name, dir) ==
    IF got.raised
    THEN Outcome(NoReply, <<"LocateImage">>, dir, 0, "return", "none", TRUE)
    ELSE IF ~Truthy(got.val)
    THEN Outcome(PlainReply("not_found"), <<"LocateImage">>, dir, 0,
                 "return", "none", FALSE)
    ELSE IF flt = "decode"
    THEN Outcome(PlainReply("open_failed"), <<"LocateImage", "DecodeImage">>,
                 dir, 0, "return", flt, FALSE)
    ELSE IF flt = "transform"
    THEN Outcome(PlainReply("transform_failed"),
                 <<"LocateImage", "DecodeImage", "Transform">>, dir, 0,
                 "return", flt, FALSE)
    ELSE sym_encode_send(i, flt, name, dir)

(***************************************************************************)
(* Spec: the host runs the handler for two messages at once.  SpecArgs:    *)
(* one invocation, over many argument texts.  The handler runs on one      *)
(* event loop, so it is atomic between its suspension points: the await of *)
(* get_first_image and every yield.                                        *)
(***************************************************************************)
Text1(a) == CMD \o <<" ">> \o a

SegMissing == ImageSeg(<<>>, PathMissing, FALSE, <<>>, TRUE, OBJ)

\* The events of Spec: a good request, a reply to an image, one with no
\* loadable image, a bad argument, no argument.
SymMessages ==
    { <<PlainSeg(Text1(<<"l", "r">>)), SegUrl>>,
      <<ReplySeg(<<SegUrl404File>>), PlainSeg(Text1(<<"1", "8", "0">>))>>,
      <<PlainSeg(Text1(ShangXia)), SegMissing>>,
      <<PlainSeg(Text1(<<"f", "o", "o">>)), SegUrl>>,
      <<PlainSeg(CMD), SegUrl>> }

InitSymWith(ids, events) ==
    /\ ImgIdle
    /\ LocIdle
    /\ hasImage \in BOOLEAN
    /\ hasRequests \in BOOLEAN
    /\ invs = ids
    /\ ev \in [ids -> events]
    /\ pc = [i \in ids |-> "idle"]
    /\ param = [i \in ids |-> <<>>]
    /\ mode = [i \in ids |-> "none"]
    /\ replies = [i \in ids |-> <<>>]
    /\ stages = [i \in ids |-> <<>>]
    /\ fname = [i \in ids |-> 0]
    /\ resume = [i \in ids |-> "return"]
    /\ delivered = [i \in ids |-> FALSE]
    /\ sent = [i \in ids |-> NotSent]
    /\ fault = [i \in ids |-> "none"]
    /\ escaped = [i \in ids |-> FALSE]
    /\ removeFailed = [i \in ids |-> FALSE]
    /\ tmpdir = [n \in Names |-> Absent]
    /\ compApi \in {"fromFile", "fromBytes", "none"}
    /\ interference = {}

Init == InitSymWith({1, 2}, SymMessages)

\* The host calls sym(event): the handler runs to its first suspension.
Invoke(i) ==
    /\ pc[i] = "idle"
    /\ LET f == sym_front(ev[i]) IN
       /\ param' = [param EXCEPT ![i] = f.param]
       /\ mode' = [mode EXCEPT ![i] = f.mode]
       /\ stages' = [stages EXCEPT ![i] = f.stages]
       /\ IF f.reply = ""
          THEN /\ pc' = [pc EXCEPT ![i] = "locating"]
               /\ UNCHANGED replies
          ELSE /\ pc' = [pc EXCEPT ![i] = "yielded"]
               /\ replies' = [replies EXCEPT
                                ![i] = Append(@, PlainReply(f.reply))]
    /\ UNCHANGED <<imgVars, depVars, locVars, invs, ev, fname, resume,
                   delivered, sent, fault, escaped, removeFailed, tmpdir,
                   compApi, interference>>

\* get_first_image returns and the handler runs to its next yield (or an
\* exception leaves it).  The awaits inside get_first_image read only the
\* network and the files of the world, which no invocation writes, so the
\* lookup is taken in the same step.
Process(i) ==
    /\ pc[i] = "locating"
    /\ \E flt \in Faults, name \in Names :
          LET o == sym_back(i, get_first_image(ev[i]), flt, name, tmpdir) IN
          /\ stages' = [stages EXCEPT ![i] = @ \o o.stages]
          /\ tmpdir' = o.tmpdir
          /\ fname' = [fname EXCEPT ![i] = o.fname]
          /\ resume' = [resume EXCEPT ![i] = o.resume]
          /\ fault' = [fault EXCEPT ![i] = o.fault]
          /\ escaped' = [escaped EXCEPT ![i] = o.escaped]
          /\ IF o.escaped
             THEN /\ pc' = [pc EXCEPT ![i] = "done"]
                  /\ UNCHANGED replies
             ELSE /\ pc' = [pc EXCEPT ![i] = "yielded"]
                  /\ replies' = [replies EXCEPT ![i] = Append(@, o.reply)]
          /\ interference' =
                IF /\ o.fname # 0
                   /\ o.tmpdir[o.fname] # tmpdir[o.fname]
                   /\ tmpdir[o.fname].owner \notin {0, i}
                THEN interference \cup
                     {[by |-> i, of |-> tmpdir[o.fname].owner,
                       op |-> "overwrite"]}
                ELSE interference
    /\ UNCHANGED <<imgVars, depVars, locVars, invs, ev, param, mode,
                   delivered, sent, removeFailed, compApi>>

\* The host sends the reply the generator is suspended on before it resumes
\* the generator; an image built from a path (Image.fromFile) is read from
\* the temp directory now, one built from bytes was read when it was built.
HostSend(i) ==
    /\ pc[i] = "yielded"
    /\ ~delivered[i]
    /\ delivered' = [delivered EXCEPT ![i] = TRUE]
    /\ LET r == replies[i][Len(replies[i])] IN
       sent' = [sent EXCEPT ![i] =
                  IF r.kind # "image" THEN @
                  ELSE IF r.src = "file" THEN tmpdir[r.path]
                  ELSE r.content]
    /\ UNCHANGED <<imgVars, depVars, locVars, invs, ev, pc, param, mode,
                   replies, stages, fname, resume, fault, escaped,
                   removeFailed, tmpdir, compApi, interference>>

\* The host resumes the generator: "return" after a plain failure reply, or
\* the finally block (os.remove, its exception swallowed) and the end.
Resume(i) ==
    /\ pc[i] = "yielded"
    /\ delivered[i]
    /\ pc' = [pc EXCEPT ![i] = "done"]
    /\ IF resume[i] = "return"
       THEN UNCHANGED <<stages, tmpdir, removeFailed, interference>>
       ELSE /\ stages' = [stages EXCEPT ![i] = Append(@, "Cleanup")]
            /\ IF tmpdir[fname[i]] = Absent
               THEN UNCHANGED <<tmpdir, removeFailed, interference>>
               ELSE \E ok \in BOOLEAN :
                      /\ tmpdir' = IF ok
                                   THEN [tmpdir EXCEPT ![fname[i]] = Absent]
                                   ELSE tmpdir
                      /\ removeFailed' = [removeFailed EXCEPT ![i] = ~ok]
                      /\ interference' =
                            IF ok /\ tmpdir[fname[i]].owner # i
                            THEN interference \cup
                                 {[by |-> i, of |-> tmpdir[fname[i]].owner,
                                   op |-> "remove"]}
                            ELSE interference
    /\ UNCHANGED <<imgVars, depVars, locVars, invs, ev, param, mode, replies,
                   fname, resume, delivered, sent, fault, escaped, compApi>>

Invokes == \E i \in invs : Invoke(i)
Processes == \E i \in invs : Process(i)
HostSends == \E i \in invs : HostSend(i)
Resumes == \E i \in invs : Resume(i)

Next ==
    \/ Invokes
    \/ Processes
    \/ HostSends
    \/ Resumes

Spec == Init /\ [][Next]_vars

\* The argument texts of SpecArgs.
ArgTexts ==
    { Text1(t) : t \in LrTokens \cup UdTokens \cup CenterTokens } \cup
    { Text1(<<"L", "R">>), Text1(<<"L", "e", "f", "t">>),
      Text1(<<"C", "E", "N", "T", "E", "R">>),
      Text1(<<"U", "p", "D", "o", "w", "n">>),
      Text1(<<"f", "o", "o">>), Text1(<<"l">>), Text1(<<"F", "O", "O">>),
      <<"l", "r">>, <<"u", "d", " ", "x">>,
      <<"s", "y", "m", " ", "l", "r">>,
      CMD \o <<"x", " ", "l", "r">>,
      <<" ", " ">> \o CMD \o <<" ", "\t", "u", "d", " ", "l", "r", " ">>,
      CMD, CMD \o <<" ">>, <<>>, <<" ", " ">> }

SegStrOnly ==
    Seg("Plain", FALSE, <<>>, <<>>, <<>>, FALSE, <<>>, TRUE,
        Text1(<<"r", "o", "t">>), <<>>)
SegNoText ==
    Seg("Plain", FALSE, <<>>, <<>>, <<>>, FALSE, <<>>, FALSE, <<>>, <<>>)

ArgMessages ==
    { <<PlainSeg(t), SegUrl>> : t \in ArgTexts } \cup
    { <<PlainSeg(t1), SegUrl, PlainSeg(t2)>> :
        t1 \in {CMD, CMD \o <<"x">>, <<" ">>, <<>>},
        t2 \in {<<"l", "r">>, Text1(<<"u", "d">>), <<"f", "o", "o">>, CMD,
                <<"U", "D">>} } \cup
    { <<SegUrl>>, <<SegStrOnly, SegUrl>>, <<SegNoText, SegUrl>>,
      <<ReplySeg(<<SegUrl>>), PlainSeg(Text1(ZhongXin))>> }

InitArgs == InitSymWith({1}, ArgMessages)

SpecArgs == InitArgs /\ [][Next]_vars

(***************************************************************************)
(* Claims about the transforms (checked under SpecImg).                    *)
(***************************************************************************)
Even(n) == n % 2 = 0

HalfW == img.w \div 2
HalfH == img.h \div 2

CenterApplied ==
    /\ tpc # "ready"
    /\ tmode = "center"
    /\ Even(img.w) /\ Even(img.h)

\* Pixel p of the top-left quadrant of the input, rotated by 180 degrees.
RotatedTopLeft(p) == img.px[<<HalfW - 1 - p[1], HalfH - 1 - p[2]>>]

\* C6 as stated: on an even x even image the bottom-right quadrant of the
\* result of mirror_center_quadrant equals, pixel for pixel, the top-left
\* quadrant of the input rotated by 180 degrees, for every input image,
\* transparent pixels included.
C6_Original ==
    CenterApplied =>
        \A p \in Coords(HalfW, HalfH) :
            res1.px[<<p[1] + HalfW, p[2] + HalfH>>] = RotatedTopLeft(p)

\* C6 amended: on an even x even image each bottom-right pixel of the result
\* equals the rotated top-left pixel of the input where that pixel is fully
\* opaque (alpha 255), is the input's own bottom-right pixel where the
\* rotated top-left pixel is fully transparent (alpha 0), and in general is
\* the two blended, band by band, by the rotated pixel's alpha.
C6_CenterQuadrantMasked ==
    CenterApplied =>
        \A p \in Coords(HalfW, HalfH) :
            LET at == <<p[1] + HalfW, p[2] + HalfH>>
                top == RotatedTopLeft(p)
            IN
            /\ top.a = 255 => res1.px[at] = top
            /\ top.a = 0 => res1.px[at] = img.px[at]
            /\ res1.px[at] =
                  Pixel(Blend(top.a, img.px[at].c, top.c),
                        Blend(top.a, img.px[at].a, top.a))

\* C6 witness: the centre transform has run on a 4 x 4 image whose rotated
\* top-left quadrant holds an opaque pixel that replaced a different pixel
\* and a transparent pixel that left a different pixel in place.
C6_Witness ==
    /\ CenterApplied
    /\ img.w = 4 /\ img.h = 4
    /\ \E p \in Coords(HalfW, HalfH) :
           /\ RotatedTopLeft(p).a = 255
           /\ img.px[<<p[1] + HalfW, p[2] + HalfH>>] # RotatedTopLeft(p)
    /\ \E p \in Coords(HalfW, HalfH) :
           /\ RotatedTopLeft(p).a = 0
           /\ img.px[<<p[1] + HalfW, p[2] + HalfH>>] # RotatedTopLeft(p)

HalfApplied ==
    /\ tpc = "twice"
    /\ tmode \in {"lr", "ud"}
    /\ Even(img.w) /\ Even(img.h)

\* The pixels of the half that is mirrored: the left half for "lr", the top
\* half for "ud".
SourceHalf ==
    IF tmode = "lr" THEN Coords(HalfW, img.h) ELSE Coords(img.w, HalfH)

\* C7 as stated: mirror_left_to_right and mirror_top_to_bottom are
\* involutions on even-dimensioned images: applying one twice restores the
\* input image, pixel for pixel.
C7_Original == HalfApplied => res2 = img

\* C7 amended: on an even-dimensioned image whose mirrored half (left for
\* "lr", top for "ud") has only fully opaque or fully transparent pixels, the
\* left-right and top-bottom transforms are idempotent: applying one twice
\* gives the same image as applying it once (not the input image).
C7_HalfMirrorIdempotent ==
    (HalfApplied /\ \A p \in SourceHalf : img.px[p].a \in {0, 255})
        => res2 = res1

\* C7 witness: a half transform has run twice on a 4 x 4 image whose mirrored
\* half mixes opaque and transparent pixels, and the first run changed it.
C7_Witness ==
    /\ HalfApplied
    /\ img.w = 4 /\ img.h = 4
    /\ \A p \in SourceHalf : img.px[p].a \in {0, 255}
    /\ \E p \in SourceHalf : img.px[p].a = 0
    /\ \E p \in SourceHalf : img.px[p].a = 255
    /\ res1 # img

(***************************************************************************)
(* Claims about the loader and the locator (SpecLoad, SpecLoc).            *)
(***************************************************************************)
IsHttpUrl(s) == StartsWith(s, HTTP) \/ StartsWith(s, HTTPS)

\* C9: load_bytes never raises; it returns None for empty input, for an
\* http(s) URL whose request raises or whose status is not 200, for a local
\* path that does not exist and for a local path whose read raises.
C9_LoadBytesTotal ==
    lpc = "loaded" =>
        /\ ~lload.raised
        /\ lref = <<>> => lload.val = NoBytes
        /\ (IsHttpUrl(lref) /\ (Net(lref).raises \/ Net(lref).status # 200))
              => lload.val = NoBytes
        /\ (lref # <<>> /\ ~IsHttpUrl(lref) /\ ~Fs(lref).exists)
              => lload.val = NoBytes
        /\ (lref # <<>> /\ ~IsHttpUrl(lref) /\ Fs(lref).exists /\ Fs(lref).raises)
              => lload.val = NoBytes

\* C9 witness: load_bytes has answered None for a local path that exists and
\* whose read raises, in a world where a URL answers 404.
C9_Witness ==
    /\ lpc = "loaded"
    /\ lref = PathDenied
    /\ Fs(lref).exists /\ Fs(lref).raises
    /\ Net(UrlOk).status = 404
    /\ lload = Ret(NoBytes)

\* The options of one candidate segment in the order the claims give: URL,
\* file reference, inline data, string rendering starting with "http"; each
\* yields bytes or nothing.
ClaimOptions(seg) ==
    << IF seg.url # <<>> THEN load_bytes(seg.url).val ELSE NoBytes,
       IF seg.file # <<>> THEN load_bytes(seg.file).val ELSE NoBytes,
       IF seg.hasData THEN Some(seg.data) ELSE NoBytes,
       IF seg.strOk /\ StartsWith(seg.str, HTTP_PREFIX)
       THEN load_bytes(seg.str).val ELSE NoBytes >>

\* The first entry of a sequence of optional byte strings that is non-empty
\* bytes; None when there is none.
RECURSIVE FirstNonEmpty(_)
FirstNonEmpty(opts) ==
    IF opts = <<>> THEN NoBytes
    ELSE IF Truthy(Head(opts)) THEN Head(opts)
    ELSE FirstNonEmpty(Tail(opts))

ClaimYield(seg) == FirstNonEmpty(ClaimOptions(seg))

\* The candidates in the order C5 gives: the chain of the quoted-reply
\* segment, then the top-level segments without the quoted-reply segments.
ClaimCandidates(msgs) ==
    LET r == FirstReply(msgs, 1)
        chain == IF r = 0 THEN <<>> ELSE msgs[r].chain
    IN  chain \o SelectSeq(msgs, LAMBDA seg : ~IsReply(seg))

ClaimYields(segs) == [k \in 1..Len(segs) |-> ClaimYield(segs[k])]

\* C5 as stated: get_first_image never raises, returns the bytes of the first
\* candidate (chain of the quoted reply first, then the top level) that
\* yields non-empty bytes, and returns "not found", nothing usable, only when
\* no candidate yields non-empty bytes.
C5_Original ==
    lpc = "located" =>
        LET want == FirstNonEmpty(ClaimYields(ClaimCandidates(lmsgs))) IN
        /\ ~lret.raised
        /\ Truthy(want) => lret.val = want
        /\ ~Truthy(want) => ~Truthy(lret.val)

\* C8 as stated: for a candidate segment the options are tried in the order
\* URL, file reference, inline data, string rendering starting with "http";
\* the first that yields non-empty bytes is the segment's result, and an
\* option that fails or yields nothing is skipped for the next one.
C8_Original ==
    (lpc = "located" /\ Len(lmsgs) = 1 /\ ~IsReply(lmsgs[1])) =>
        /\ Truthy(ClaimYield(lmsgs[1])) => lret.val = ClaimYield(lmsgs[1])
        /\ ~Truthy(ClaimYield(lmsgs[1])) => ~Truthy(lret.val)

(***************************************************************************)
(* Claims about the handler (Spec, SpecArgs).                              *)
(***************************************************************************)
Ran(i, stage) == \E k \in 1..Len(stages[i]) : stages[i][k] = stage

\* C1 as stated: once the handler has returned from a run that reached the
\* Encode stage, the temporary file it created is absent from the temp
\* directory, on the success path and on every failure path (a deletion
\* that itself fails being left aside).
C1_Original ==
    \A i \in invs :
        (pc[i] = "done" /\ Ran(i, "Encode") /\ ~removeFailed[i])
            => \A n \in Names : tmpdir[n].owner # i

AllStages == <<"ParseArgs", "LocateImage", "DecodeImage", "Transform",
               "Encode", "Send", "Cleanup">>

\* The one reply and the stages an invocation must end with, given what
\* failed.
Ended(i, text, lastStage) ==
    /\ replies[i] = <<PlainReply(text)>>
    /\ stages[i] = SubSeq(AllStages, 1, lastStage)

C10_Original ==
    /\ interference = {}
    /\ \A i \in invs : sent[i] # NotSent => sent[i] = File(i, TRUE)

AllTokens == LrTokens \cup UdTokens \cup CenterTokens

TableMode(tok) ==
    IF tok \in LrTokens THEN "lr"
    ELSE IF tok \in UdTokens THEN "ud"
    ELSE "center"

\* Nothing was looked up, fetched, decoded, transformed or written.
StoppedAfterParse(i, text) ==
    /\ pc[i] \in {"yielded", "done"}
    /\ replies[i] = <<PlainReply(text)>>
    /\ stages[i] = <<"ParseArgs">>
    /\ fname[i] = 0
    /\ \A n \in Names : tmpdir[n] = Absent

\* C3 as stated: every token of the synonym table maps to its one canonical
\* mode, and any other argument token yields the "invalid parameter" reply
\* with no image lookup, fetch, decode, transform or temp file.
C3_Original ==
    \A i \in invs :
        (pc[i] # "idle" /\ DepsPresent /\ ArgToken(ev[i]) # <<>>) =>
            LET arg == ArgToken(ev[i]) IN
            /\ arg \in AllTokens => mode[i] = TableMode(arg)
            /\ arg \notin AllTokens => StoppedAfterParse(i, "invalid")

\* C3 amended: the argument is lower-cased first: every token of the synonym
\* table, in any letter case, maps to its one canonical mode, and an argument
\* whose lower-case form is not in the table yields the "invalid parameter"
\* reply with no image lookup, fetch, decode, transform or temp file.
C3_SynonymTable ==
    /\ LrTokens \cap UdTokens = {}
    /\ LrTokens \cap CenterTokens = {}
    /\ UdTokens \cap CenterTokens = {}
    /\ \A i \in invs :
        (pc[i] # "idle" /\ DepsPresent /\ ArgToken(ev[i]) # <<>>) =>
            LET arg == Lower(ArgToken(ev[i])) IN
            /\ arg \in AllTokens =>
                  /\ mode[i] = TableMode(arg)
                  /\ ~StoppedAfterParse(i, "invalid")
            /\ arg \notin AllTokens =>
                  /\ mode[i] = "none"
                  /\ StoppedAfterParse(i, "invalid")

\* C3 witness: the handler has answered "invalid parameter" to an argument
\* outside the table and has returned.
C3_Witness ==
    /\ invs = {1}
    /\ DepsPresent
    /\ ArgToken(ev[1]) = <<"F", "O", "O">>
    /\ pc[1] = "done"
    /\ StoppedAfterParse(1, "invalid")

IsPlainText(seg) == seg.type = "Plain" /\ Split(SegText(seg)) # <<>>

\* The argument as C4 words it: in the first plain-text segment with text,
\* the second token when the first token is the command (none when there is
\* no second token), else the first token.
ClaimArg(msgs) ==
    LET plain == SelectSeq(msgs, IsPlainText) IN
    IF plain = <<>> THEN <<>>
    ELSE LET parts == Split(SegText(plain[1])) IN
         IF StartsWith(parts[1], CMD)
         THEN IF Len(parts) >= 2 THEN parts[2] ELSE <<>>
         ELSE parts[1]

\* C4 as stated: the argument is taken from the first plain-text segment:
\* its second token when its first token is the command name, else its
\* first token; with no argument the handler yields the usage message and
\* locates no image.
C4_Original ==
    \A i \in invs :
        (pc[i] # "idle" /\ DepsPresent) =>
            /\ param[i] = Lower(ClaimArg(ev[i]))
            /\ ClaimArg(ev[i]) = <<>> => StoppedAfterParse(i, "usage")

IsBareCommand(seg) ==
    /\ Len(Split(SegText(seg))) = 1
    /\ StartsWith(Split(SegText(seg))[1], CMD)

IsArgSegment(seg) == IsPlainText(seg) /\ ~IsBareCommand(seg)

\* The argument as the handler takes it.
AmendedArg(msgs) ==
    LET plain == SelectSeq(msgs, IsArgSegment) IN
    IF plain = <<>> THEN <<>>
    ELSE LET parts == Split(SegText(plain[1])) IN
         IF StartsWith(parts[1], CMD) THEN parts[2] ELSE parts[1]

\* C4 amended: the argument is taken from the first plain-text segment that
\* has text and is more than a lone token starting with "/sym" (such
\* segments are skipped): its second token when its first token starts with
\* "/sym", else its first token, lower-cased; with no such segment the
\* handler yields the usage message and locates no image.
C4_ArgumentSegment ==
    \A i \in invs :
        (pc[i] # "idle" /\ DepsPresent) =>
            /\ param[i] = Lower(AmendedArg(ev[i]))
            /\ AmendedArg(ev[i]) = <<>> => StoppedAfterParse(i, "usage")
            /\ AmendedArg(ev[i]) # <<>> => ~StoppedAfterParse(i, "usage")

\* C4 witness: the command stood alone in the first text segment, the
\* argument came from a later one and the handler went on to send an image.
C4_Witness ==
    /\ invs = {1}
    /\ DepsPresent
    /\ ev[1] = <<PlainSeg(CMD), SegUrl, PlainSeg(<<"l", "r">>)>>
    /\ param[1] = <<"l", "r">>
    /\ pc[1] = "done"
    /\ replies[1][1].kind = "image"

====
